---- MODULE Spec2Model ----
(***************************************************************************)
(* TaskForm (src/src/components/TaskForm.tsx): a modal form that creates   *)
(* or edits a task.  The component's React state, its props, its effect    *)
(* and its event handlers are modelled as a state machine.                 *)
(*                                                                         *)
(* Strings that the code trims, lower-cases or parses are sequences of     *)
(* one-character strings; numbers are tagged records so that '', NaN and   *)
(* the infinities stay distinct from finite values.                        *)
(***************************************************************************)
EXTENDS Integers, Sequences, FiniteSets, TLC

\* ------------------------------------------------------------------ bounds
\* Largest digit the numeric fields can be given.
MaxNum == 2
\* Last reading of the wall clock.
MaxClock == 2

\* --------------------------------------------------------------- optionals
\* undefined / null is the empty sequence, a present value a 1-sequence.
None == <<>>
Some(x) == <<x>>
IsSome(o) == o # <<>>
Get(o) == o[1]

\* ----------------------------------------------------------------- strings
\* String.prototype.toLowerCase on the characters in use.
ToLowerChar(c) ==
  IF c = "A" THEN "a" ELSE IF c = "B" THEN "b" ELSE IF c = "C" THEN "c" ELSE c

ToLowerCase(s) == [i \in 1..Len(s) |-> ToLowerChar(s[i])]

RECURSIVE TrimStart(_)
TrimStart(s) ==
  IF s # <<>> /\ Head(s) = " " THEN TrimStart(Tail(s)) ELSE s

RECURSIVE TrimEnd(_)
TrimEnd(s) ==
  IF s # <<>> /\ s[Len(s)] = " " THEN TrimEnd(SubSeq(s, 1, Len(s) - 1)) ELSE s

\* String.prototype.trim
Trim(s) == TrimEnd(TrimStart(s))

\* ----------------------------------------------------------------- numbers
\* The state type number | '' : k is "empty" for '', otherwise the value is
\* a JavaScript number, finite (k = "fin", value v) or NaN / +-Infinity.
Empty == [k |-> "empty", v |-> 0]
Fin(n) == [k |-> "fin", v |-> n]
NaN == [k |-> "nan", v |-> 0]
Inf == [k |-> "inf", v |-> 0]
NegInf == [k |-> "ninf", v |-> 0]

\* typeof x === 'number'
TypeofNumber(x) == x.k # "empty"
\* Number.isFinite(x)
IsFinite(x) == x.k = "fin"
\* x < 0, x <= 0, x >= 0, x > 0 on JavaScript numbers (all false on NaN)
Lt0(x) == (x.k = "fin" /\ x.v < 0) \/ x.k = "ninf"
Le0(x) == (x.k = "fin" /\ x.v <= 0) \/ x.k = "ninf"
Ge0(x) == (x.k = "fin" /\ x.v >= 0) \/ x.k = "inf"
Gt0(x) == (x.k = "fin" /\ x.v > 0) \/ x.k = "inf"

DigitChars == <<"0", "1", "2", "3", "4", "5", "6", "7", "8", "9">>
IsDigit(c) == \E i \in 1..Len(DigitChars) : DigitChars[i] = c
DigitVal(c) == (CHOOSE i \in 1..Len(DigitChars) : DigitChars[i] = c) - 1
IsDigits(s) == s # <<>> /\ \A i \in 1..Len(s) : IsDigit(s[i])

RECURSIVE DigitsVal(_)
DigitsVal(s) ==
  IF s = <<>> THEN 0
  ELSE 10 * DigitsVal(SubSeq(s, 1, Len(s) - 1)) + DigitVal(s[Len(s)])

\* Number(v) on a string: blank is 0, a signed decimal integer is its value,
\* the word Infinity is an infinity, anything else is NaN.
NumberOf(s) ==
  LET t == Trim(s) IN
  IF t = <<>> THEN Fin(0)
  ELSE IF t = <<"Infinity">> THEN Inf
  ELSE IF t = <<"-", "Infinity">> THEN NegInf
  ELSE IF Head(t) = "-"
       THEN (IF IsDigits(Tail(t)) THEN Fin(0 - DigitsVal(Tail(t))) ELSE NaN)
  ELSE IF IsDigits(t) THEN Fin(DigitsVal(t))
  ELSE NaN

\* --------------------------------------------------------------- constants
priorities == <<"High", "Medium", "Low">>
statuses == <<"Todo", "In Progress", "Done">>
Range(s) == {s[i] : i \in 1..Len(s)}

NULL == "null"
RevenueRequired == "Revenue is required"
RevenueInvalid == "Enter a valid non-negative number"
TimeRequired == "Time taken is required"
TimeInvalid == "Enter a positive number (> 0)"
DuplicateHelper == "Duplicate title not allowed"

\* ------------------------------------------------------------------ inputs
\* Values typed into the title field.
TitleInputs ==
  { <<>>, <<" ">>, <<"A">>, <<" ", "a">>, <<"B", " ">>, <<"c">> }

\* Values typed into a numeric field.
NumericInputs ==
  { <<>>, <<"x">>, <<"Infinity">>, <<"-", "1">> }
    \cup { <<DigitChars[n + 1]>> : n \in 0..MaxNum }

\* Number(v) for each of them, computed once.
NumberInput == [v \in NumericInputs |-> NumberOf(v)]

NotesInputs == { <<>>, <<" ", "n">> }

\* Tasks the parent can hand over for editing.
Task1 ==
  [id |-> "t1", title |-> <<"a">>, revenue |-> Fin(1), timeTaken |-> Fin(1),
   priority |-> "High", status |-> "Todo", notes |-> None,
   createdAt |-> 0, completedAt |-> None]
Task2 ==
  [id |-> "t2", title |-> <<"b">>, revenue |-> Fin(0), timeTaken |-> Fin(1),
   priority |-> "Low", status |-> "Done", notes |-> Some(<<"n">>),
   createdAt |-> 0, completedAt |-> Some(0)]
Tasks == {Task1, Task2}

\* The existingTitles prop: the titles of the sibling tasks, and a list with
\* a blank and an untrimmed entry.
ExistingTitlesChoices ==
  { <<(<<"a">>), (<<"b">>)>>, <<(<<"a">>), (<<" ", "a">>), (<<>>)>> }

\* ------------------------------------------------------------------- state
VARIABLES
  open, initial, existingTitles,           \* props
  title, revenue, timeTaken, priority, status, notes,   \* useState fields
  revenueError, timeError,                 \* useState error messages
  clock,                                   \* what new Date() reads
  calls, payload,                          \* callbacks made by the last event
  last                                     \* what the last event was

vars ==
  <<open, initial, existingTitles, title, revenue, timeTaken, priority,
    status, notes, revenueError, timeError, clock, calls, payload,
    last>>

fields == <<title, revenue, timeTaken, priority, status, notes>>
errors == <<revenueError, timeError>>
props == <<open, initial, existingTitles>>


Blank ==
  /\ title = <<>> /\ revenue = Empty /\ timeTaken = Empty
  /\ priority = "" /\ status = "" /\ notes = <<>>

Init ==
  /\ open = FALSE
  /\ initial = None
  /\ existingTitles \in ExistingTitlesChoices
  /\ Blank
  /\ revenueError = NULL
  /\ timeError = NULL
  /\ clock = 1
  /\ calls = <<>>
  /\ payload = None
  /\ last = ""

\* ---------------------------------------------------------- derived values
duplicateTitle_CaseSensitive ==
  LET current == Trim(title)
      NotOwn(t) == ToLowerCase(t) # ToLowerCase(Get(initial).title)
      others == IF IsSome(initial) THEN SelectSeq(existingTitles, NotOwn)
                ELSE existingTitles
  IN  IF current = <<>> THEN FALSE
      ELSE \E i \in 1..Len(others) : ToLowerCase(others[i]) = current

duplicateTitle ==
  LET current == ToLowerCase(Trim(title))
      NotOwn(t) == ToLowerCase(t) # ToLowerCase(Get(initial).title)
      others == IF IsSome(initial) THEN SelectSeq(existingTitles, NotOwn)
                ELSE existingTitles
  IN  IF current = <<>> THEN FALSE
      ELSE \E i \in 1..Len(others) : ToLowerCase(others[i]) = current

\* helperText of the title field
titleHelperText == IF duplicateTitle THEN DuplicateHelper ELSE " "
\* error flag of the title field
titleError == title # <<>> /\ duplicateTitle

revenueOk_AnyFinite == TypeofNumber(revenue) /\ IsFinite(revenue)

\* typeof revenue === 'number' && Number.isFinite(revenue) && revenue >= 0
revenueOk == TypeofNumber(revenue) /\ IsFinite(revenue) /\ Ge0(revenue)

timeOk_ZeroAllowed ==
  TypeofNumber(timeTaken) /\ IsFinite(timeTaken) /\ Ge0(timeTaken)

\* typeof timeTaken === 'number' && Number.isFinite(timeTaken) && timeTaken > 0
timeOk == TypeofNumber(timeTaken) /\ IsFinite(timeTaken) /\ Gt0(timeTaken)

canSubmit_NoSelects ==
  /\ Trim(title) # <<>>
  /\ ~duplicateTitle
  /\ revenueOk
  /\ timeOk

canSubmit ==
  /\ Trim(title) # <<>>
  /\ ~duplicateTitle
  /\ revenueOk
  /\ timeOk
  /\ priority # ""
  /\ status # ""

\* ------------------------------------------------------------- the effect
OpenEffect_KeepErrors(i) ==
  IF IsSome(i)
  THEN /\ title' = Get(i).title
       /\ revenue' = Get(i).revenue
       /\ timeTaken' = Get(i).timeTaken
       /\ priority' = Get(i).priority
       /\ status' = Get(i).status
       /\ notes' = (IF IsSome(Get(i).notes) THEN Get(Get(i).notes) ELSE <<>>)
       /\ UNCHANGED errors
  ELSE /\ title' = <<>>
       /\ revenue' = Empty
       /\ timeTaken' = Empty
       /\ priority' = ""
       /\ status' = ""
       /\ notes' = <<>>
       /\ UNCHANGED errors

\* useEffect on [open, initial], run with the dialog open and initial = i
OpenEffect(i) ==
  IF IsSome(i)
  THEN /\ title' = Get(i).title
       /\ revenue' = Get(i).revenue
       /\ timeTaken' = Get(i).timeTaken
       /\ priority' = Get(i).priority
       /\ status' = Get(i).status
       /\ notes' = (IF IsSome(Get(i).notes) THEN Get(Get(i).notes) ELSE <<>>)
       /\ UNCHANGED errors
  ELSE /\ title' = <<>>
       /\ revenue' = Empty
       /\ timeTaken' = Empty
       /\ priority' = ""
       /\ status' = ""
       /\ notes' = <<>>
       /\ revenueError' = NULL
       /\ timeError' = NULL

NoCallbacks == calls' = <<>> /\ payload' = None

\* The parent renders the dialog open, for a new task or for task i.
OpenDialog(i) ==
  /\ ~open
  /\ open' = TRUE
  /\ initial' = i
  /\ OpenEffect(i)
  /\ last' = (IF ~Blank \/ revenueError # NULL \/ timeError # NULL
              THEN "reopen" ELSE "open")
  /\ NoCallbacks
  /\ UNCHANGED <<existingTitles, clock>>

\* The parent hands over another initial while the dialog is open.
ChangeInitial(i) ==
  /\ open
  /\ i # initial
  /\ initial' = i
  /\ OpenEffect(i)
  /\ last' = ""
  /\ NoCallbacks
  /\ UNCHANGED <<open, existingTitles, clock>>

\* The parent's onClose: the dialog is rendered closed.
ParentClose == open' = FALSE /\ UNCHANGED <<initial, existingTitles>>

\* ---------------------------------------------------------- field handlers
\* onChange of the title field
SetTitle(v) ==
  /\ open
  /\ title' = v
  /\ NoCallbacks
  /\ UNCHANGED <<props, revenue, timeTaken, priority, status, notes, errors,
                 clock>>

\* onChange of the priority select
SetPriority(p) ==
  /\ open
  /\ priority' = p
  /\ NoCallbacks
  /\ UNCHANGED <<props, title, revenue, timeTaken, status, notes, errors,
                 clock>>

\* onChange of the status select
SetStatus(s) ==
  /\ open
  /\ status' = s
  /\ NoCallbacks
  /\ UNCHANGED <<props, title, revenue, timeTaken, priority, notes, errors,
                 clock>>

\* onChange of the notes field
SetNotes(v) ==
  /\ open
  /\ notes' = v
  /\ NoCallbacks
  /\ UNCHANGED <<props, title, revenue, timeTaken, priority, status, errors,
                 clock>>

handleRevenueChange(v) ==
  /\ open
  /\ IF v = <<>>
     THEN revenue' = Empty /\ revenueError' = RevenueRequired
     ELSE LET num == NumberInput[v] IN
          IF ~IsFinite(num) \/ Lt0(num)
          THEN revenue' = num /\ revenueError' = RevenueInvalid
          ELSE revenue' = num /\ revenueError' = NULL
  /\ NoCallbacks
  /\ UNCHANGED <<props, title, timeTaken, priority, status, notes, timeError,
                 clock>>

handleTimeChange(v) ==
  /\ open
  /\ IF v = <<>>
     THEN timeTaken' = Empty /\ timeError' = TimeRequired
     ELSE LET num == NumberInput[v] IN
          IF ~IsFinite(num) \/ Le0(num)
          THEN timeTaken' = num /\ timeError' = TimeInvalid
          ELSE timeTaken' = num /\ timeError' = NULL
  /\ NoCallbacks
  /\ UNCHANGED <<props, title, revenue, priority, status, notes, revenueError,
                 clock>>

\* ------------------------------------------------------------ handleSubmit
\* const revNum = typeof revenue === 'number' ? revenue : NaN
revNum == IF TypeofNumber(revenue) THEN revenue ELSE NaN
\* const timeNum = typeof timeTaken === 'number' ? timeTaken : NaN
timeNum == IF TypeofNumber(timeTaken) THEN timeTaken ELSE NaN

\* the two re-validation tests
revBad == ~IsFinite(revNum) \/ Lt0(revNum)
timeBad == ~IsFinite(timeNum) \/ Le0(timeNum)

\* const safeTime = timeNum > 0 ? timeNum : 1
safeTime == IF Gt0(timeNum) THEN timeNum ELSE Fin(1)

createdAt_AlwaysNow(now) == now

\* initial?.createdAt ?? new Date().toISOString()
createdAt(now) == IF IsSome(initial) THEN Get(initial).createdAt ELSE now

completedAt_KeepInitial(now) ==
  IF IsSome(initial) /\ IsSome(Get(initial).completedAt)
  THEN Get(initial).completedAt
  ELSE IF status = "Done" THEN Some(now) ELSE None

\* status === 'Done' ? (initial?.completedAt ?? new Date().toISOString())
\*                   : undefined
completedAt(now) ==
  IF status = "Done"
  THEN (IF IsSome(initial) /\ IsSome(Get(initial).completedAt)
        THEN Get(initial).completedAt
        ELSE Some(now))
  ELSE None

payloadId_Never == None

\* if (initial && initial.id) basePayload.id = initial.id
payloadId ==
  IF IsSome(initial) /\ Get(initial).id # "" THEN Some(Get(initial).id)
  ELSE None

basePayload(now) ==
  [title |-> Trim(title),
   revenue |-> (IF IsFinite(revNum) THEN revNum ELSE Fin(0)),
   timeTaken |-> safeTime,
   priority |-> (IF priority # "" THEN priority ELSE "Medium"),
   status |-> (IF status # "" THEN status ELSE "Todo"),
   notes |-> (IF Trim(notes) # <<>> THEN Some(Trim(notes)) ELSE None),
   createdAt |-> createdAt(now),
   completedAt |-> completedAt(now),
   id |-> payloadId]

handleSubmit_NoReturn(now) ==
  /\ revenueError' = (IF revBad THEN RevenueInvalid ELSE revenueError)
  /\ timeError' = (IF timeBad THEN TimeInvalid ELSE timeError)
  /\ payload' = Some(basePayload(now))
  /\ calls' = <<"onSubmit", "onClose">>
  /\ clock' = now
  /\ ParentClose
  /\ UNCHANGED fields

\* handleSubmit, with new Date() reading now
handleSubmit(now) ==
  IF revBad \/ timeBad
  THEN /\ revenueError' = (IF revBad THEN RevenueInvalid ELSE revenueError)
       /\ timeError' = (IF timeBad THEN TimeInvalid ELSE timeError)
       /\ NoCallbacks
       /\ UNCHANGED <<props, fields, clock>>
  ELSE /\ payload' = Some(basePayload(now))
       /\ calls' = <<"onSubmit", "onClose">>
       /\ clock' = now
       /\ ParentClose
       /\ UNCHANGED <<fields, errors>>

\* A click on the submit button, which is disabled unless canSubmit.
Submit ==
  /\ open
  /\ canSubmit
  /\ \E now \in clock..MaxClock : handleSubmit(now)
  /\ last' = "submit"

\* handleSubmit run whatever the button's disabled flag says.
SubmitDirect ==
  /\ open
  /\ \E now \in clock..MaxClock : handleSubmit(now)
  /\ last' = "submit"

\* The Cancel button, and the Dialog's own onClose.
Cancel ==
  /\ open
  /\ calls' = <<"onClose">>
  /\ payload' = None
  /\ ParentClose
  /\ last' = "cancel"
  /\ UNCHANGED <<fields, errors, clock>>

\* ----------------------------------------------------------- specification
\* A change event of a field; last keeps which numeric field, if any, was
\* given a finite value within its bound.
Edit ==
  \/ \E v \in TitleInputs : SetTitle(v) /\ last' = ""
  \/ \E v \in NumericInputs :
       /\ handleRevenueChange(v)
       /\ last' = (IF v # <<>> /\ IsFinite(NumberInput[v]) /\ Ge0(NumberInput[v])
                   THEN "revenue" ELSE "")
  \/ \E v \in NumericInputs :
       /\ handleTimeChange(v)
       /\ last' = (IF v # <<>> /\ IsFinite(NumberInput[v]) /\ Gt0(NumberInput[v])
                   THEN "time" ELSE "")
  \/ \E p \in Range(priorities) : SetPriority(p) /\ last' = ""
  \/ \E s \in Range(statuses) : SetStatus(s) /\ last' = ""
  \/ \E v \in NotesInputs : SetNotes(v) /\ last' = ""

Parent ==
  \/ \E i \in {None} \cup {Some(t) : t \in Tasks} : OpenDialog(i)
  \/ \E i \in {None} \cup {Some(t) : t \in Tasks} : ChangeInitial(i)

Next == Parent \/ Edit \/ Submit \/ Cancel

Spec == Init /\ [][Next]_vars

NextDirect == Parent \/ Edit \/ SubmitDirect \/ Cancel

SpecDirect == Init /\ [][NextDirect]_vars

\* ------------------------------------------------------------------ claims
\* entry e of existingTitles is not the edited task's own title
NotOwnTitle(e) ==
  IsSome(initial) => ToLowerCase(e) # ToLowerCase(Get(initial).title)

DuplicateShown ==
  ~canSubmit /\ duplicateTitle /\ titleHelperText = DuplicateHelper

\* C1 as stated: while the dialog is open, a title equal, ignoring case, to
\* an entry of existingTitles other than the edited task's own title disables
\* submission and shows the duplicate-title error.
C1_Original ==
  open =>
    \A i \in 1..Len(existingTitles) :
      (NotOwnTitle(existingTitles[i])
         /\ ToLowerCase(title) = ToLowerCase(existingTitles[i]))
        => DuplicateShown

\* C1 amended: while the dialog is open, a title whose trimmed form is not
\* empty and equals, ignoring case, an entry of existingTitles other than the
\* edited task's own title disables submission and shows the duplicate-title
\* error.
C1_TrimmedDuplicate ==
  open =>
    \A i \in 1..Len(existingTitles) :
      (NotOwnTitle(existingTitles[i])
         /\ Trim(title) # <<>>
         /\ ToLowerCase(Trim(title)) = ToLowerCase(existingTitles[i]))
        => DuplicateShown

\* C1 witness: editing task 1, everything else valid, the title typed in
\* upper case with a trailing blank collides with task 2's title.
C1_Witness ==
  /\ open /\ initial = Some(Task1)
  /\ title = <<"B", " ">>
  /\ revenueOk /\ timeOk /\ priority # "" /\ status # ""
  /\ DuplicateShown

\* the revenue field is empty, non-numeric or negative
RevenueFieldInvalid == revenue = Empty \/ ~IsFinite(revenue) \/ Lt0(revenue)
\* the timeTaken field is empty, non-numeric or <= 0
TimeFieldInvalid == timeTaken = Empty \/ ~IsFinite(timeTaken) \/ Le0(timeTaken)

\* what canSubmit asks of the fields other than revenue
OthersThanRevenueOk ==
  /\ Trim(title) # <<>> /\ ~duplicateTitle /\ timeOk
  /\ priority # "" /\ status # ""

\* what canSubmit asks of the fields other than timeTaken
OthersThanTimeOk ==
  /\ Trim(title) # <<>> /\ ~duplicateTitle /\ revenueOk
  /\ priority # "" /\ status # ""

\* C2 as stated: with the dialog open submission is disabled whenever the
\* revenue field is empty, negative or non-numeric, and a revenue change
\* event that enters a finite value >= 0 leaves submission enabled.
C2_Original ==
  /\ (open /\ RevenueFieldInvalid) => ~canSubmit
  /\ last = "revenue" => canSubmit

\* C2 amended: with the dialog open submission is disabled whenever the
\* revenue field is empty, negative or non-numeric, and a revenue change
\* event that enters a finite value >= 0 leaves submission enabled exactly
\* when the title, timeTaken, priority and status conditions hold.
C2_RevenueGate ==
  /\ (open /\ RevenueFieldInvalid) => ~canSubmit
  /\ last = "revenue" => (canSubmit <=> OthersThanRevenueOk)

\* C2 witness: a new task with every other condition met, submission
\* enabled by the revenue just entered.
C2_Witness ==
  /\ open /\ initial = None /\ last = "revenue"
  /\ OthersThanRevenueOk /\ canSubmit

\* C3 as stated: with the dialog open submission is disabled whenever the
\* timeTaken field is empty, <= 0 or non-numeric, and a timeTaken change
\* event that enters a finite value > 0 leaves submission enabled.
C3_Original ==
  /\ (open /\ TimeFieldInvalid) => ~canSubmit
  /\ last = "time" => canSubmit

\* C3 amended: with the dialog open submission is disabled whenever the
\* timeTaken field is empty, <= 0 or non-numeric, and a timeTaken change
\* event that enters a finite value > 0 leaves submission enabled exactly
\* when the title, revenue, priority and status conditions hold.
C3_TimeGate ==
  /\ (open /\ TimeFieldInvalid) => ~canSubmit
  /\ last = "time" => (canSubmit <=> OthersThanTimeOk)

\* C3 witness: a new task with every other condition met, submission
\* enabled by the timeTaken just entered.
C3_Witness ==
  /\ open /\ initial = None /\ last = "time"
  /\ OthersThanTimeOk /\ canSubmit

\* C4: a payload's completedAt is set exactly when its status is Done: for
\* Done it is the edited task's completedAt if it has one and otherwise the
\* time read at submit, for any other status it is undefined.
C4_CompletedAt ==
  IsSome(payload) =>
    LET p == Get(payload) IN
    /\ IsSome(p.completedAt) <=> p.status = "Done"
    /\ p.status = "Done" =>
         p.completedAt =
           (IF IsSome(initial) /\ IsSome(Get(initial).completedAt)
            THEN Get(initial).completedAt ELSE Some(clock))
    /\ p.status # "Done" => p.completedAt = None

\* C4 witness: task 2, which is Done and has a completedAt, was edited to
\* another status and submitted.
C4_Witness ==
  /\ IsSome(payload) /\ initial = Some(Task2)
  /\ Get(payload).status = "In Progress"
  /\ Get(payload).completedAt = None

\* C5: a payload's createdAt is the edited task's createdAt in edit mode and
\* the time read at submit in create mode.
C5_CreatedAt ==
  IsSome(payload) =>
    Get(payload).createdAt =
      (IF IsSome(initial) THEN Get(initial).createdAt ELSE clock)

\* C5 witness: task 1 was submitted at the last clock reading with every
\* field edited.
C5_Witness ==
  /\ IsSome(payload) /\ initial = Some(Task1) /\ clock = MaxClock
  /\ Get(payload).title # Task1.title
  /\ Get(payload).revenue # Task1.revenue
  /\ Get(payload).timeTaken # Task1.timeTaken
  /\ Get(payload).priority # Task1.priority
  /\ Get(payload).status # Task1.status
  /\ Get(payload).notes # Task1.notes
  /\ Get(payload).createdAt = Task1.createdAt

\* C6: an open transition with no initial task leaves the six fields blank
\* and both numeric error messages null.
C6_CreateReset ==
  (last \in {"open", "reopen"} /\ initial = None)
    => (open /\ Blank /\ revenueError = NULL /\ timeError = NULL)

\* C6 witness: the dialog has just been opened for a new task over a form
\* that held values or error messages.
C6_Witness ==
  /\ open /\ initial = None /\ last = "reopen"
  /\ Blank /\ revenueError = NULL /\ timeError = NULL

C8_Callbacks ==
  /\ (last = "submit" /\ ~revBad /\ ~timeBad)
       => (calls = <<"onSubmit", "onClose">> /\ IsSome(payload))
  /\ (last = "submit" /\ (revBad \/ timeBad))
       => (calls = <<>> /\ payload = None)
  /\ last = "cancel" => (calls = <<"onClose">> /\ payload = None)
  /\ (IsSome(payload) \/ "onSubmit" \in Range(calls))
       => (last = "submit" /\ ~revBad /\ ~timeBad
             /\ calls = <<"onSubmit", "onClose">>)
  /\ last \notin {"submit", "cancel"} => calls = <<>>

\* C8 witness: a submit has failed re-validation on an empty revenue field,
\* which leaves the dialog open, no callback made, and the message that only
\* handleSubmit gives an empty field.
C8_Witness ==
  /\ open /\ last = "submit" /\ calls = <<>> /\ payload = None
  /\ revenue = Empty /\ revenueError = RevenueInvalid

\* C9: every payload has a trimmed, non-empty title that equals, ignoring
\* case, no entry of existingTitles other than the edited task's own title,
\* a finite revenue >= 0, a finite timeTaken > 0, and the revenue,
\* timeTaken, priority and status of the form as they are.
C9_PayloadValid ==
  IsSome(payload) =>
    LET p == Get(payload) IN
    /\ p.title = Trim(title) /\ Trim(p.title) = p.title /\ p.title # <<>>
    /\ \A i \in 1..Len(existingTitles) :
         NotOwnTitle(existingTitles[i])
           => ToLowerCase(p.title) # ToLowerCase(existingTitles[i])
    /\ IsFinite(p.revenue) /\ Ge0(p.revenue) /\ p.revenue = revenue
    /\ IsFinite(p.timeTaken) /\ Gt0(p.timeTaken) /\ p.timeTaken = timeTaken
    /\ p.priority = priority /\ p.priority \in Range(priorities)
    /\ p.status = status /\ p.status \in Range(statuses)

\* C9 witness: a new task was submitted whose title was typed with a
\* trailing blank.
C9_Witness ==
  /\ IsSome(payload) /\ initial = None
  /\ title = <<"B", " ">> /\ Get(payload).title = <<"B">>

\* C10: while the dialog is open a numeric error message is shown only for
\* a field whose value is invalid, so none is shown when submission is
\* enabled.
C10_ErrorsOnlyWhenInvalid ==
  open =>
    /\ revenueError # NULL => RevenueFieldInvalid
    /\ timeError # NULL => TimeFieldInvalid
    /\ canSubmit => (revenueError = NULL /\ timeError = NULL)

====
